---- MODULE Spec2Model ----
(***************************************************************************)
(* Model of core/check.go: the rule compiler (definition -> check), the    *)
(* seven matchers, the registry AllChecks and the loader.                  *)
(*                                                                         *)
(* Texts are sequences of one-character strings.  Offsets are 0-based and  *)
(* spans half-open, as in Go: the span <<a, b>> of text t is               *)
(* SubSeq(t, a + 1, b).  The character "h" stands for a whole URL scheme   *)
(* with its separator ("http://"): it begins with a word character and     *)
(* ends with a non-word one.                                               *)
(***************************************************************************)
EXTENDS Integers, Sequences, FiniteSets, TLC

VARIABLES
    pc,         \* position of the process under study
    txt,        \* the text handed to the matcher
    chk,        \* the compiled check under study (closure of a builder)
    f,          \* the File: [NormedExt, Sequences]
    alerts,     \* what the last matcher invocation returned
    runs,       \* matcher invocations made on this File
    AllChecks,  \* the registry: qualified name -> check
    firstReg,   \* history: the check first registered under each name
    queue,      \* rule files still to load
    loaded,     \* rule files the loader has been through
    errors,     \* names reported by the loader
    proc        \* the external process of a script check

scanVars == <<txt, chk, f, alerts, runs>>
loadVars == <<AllChecks, firstReg, queue, loaded, errors>>
vars == <<pc, txt, chk, f, alerts, runs, AllChecks, firstReg, queue, loaded, errors, proc>>

(***************************************************************************)
(* Bounds                                                                  *)
(***************************************************************************)
MaxLen == 2
MaxRuns == 2
MaxMax == 2
MaxQueue == 2
MaxOut == 3

\* Longer texts for the matchers that keep no state between invocations.
LongLen == MaxLen + 3

(***************************************************************************)
(* Characters and strings                                                  *)
(***************************************************************************)
AllChars == {"x", "y", "X", " ", "h", "#", ":", "=", "*"}

Texts(alphabet, n) == UNION {[1..k -> alphabet] : k \in 0..n}

IsSpace(c) == c = " "

\* First / last byte of the character is a word character (\w).
WordL(c) == c \in {"x", "y", "X", "h"}
WordR(c) == c \in {"x", "y", "X"}

\* \b at offset i of s.
Boundary(s, i) ==
    LET left == IF i = 0 THEN FALSE ELSE WordR(s[i])
        right == IF i >= Len(s) THEN FALSE ELSE WordL(s[i + 1])
    IN left # right

Fold(c) == IF c = "X" THEN "x" ELSE c

\* txt[a:b]
Slice(s, a, b) == SubSeq(s, a + 1, b)

RECURSIVE Repeat(_, _)
Repeat(c, n) == IF n <= 0 THEN <<>> ELSE <<c>> \o Repeat(c, n - 1)

HasPrefixAt(s, old, i) ==
    /\ i + Len(old) <= Len(s)
    /\ \A k \in 1..Len(old) : s[i + k] = old[k]

\* strings.Replace(s, old, new, -1) for a non-empty old, from offset i on.
RECURSIVE ReplaceFrom(_, _, _, _)
ReplaceFrom(s, old, new, i) ==
    IF i >= Len(s) THEN <<>>
    ELSE IF HasPrefixAt(s, old, i)
         THEN new \o ReplaceFrom(s, old, new, i + Len(old))
         ELSE <<s[i + 1]>> \o ReplaceFrom(s, old, new, i + 1)

\* An empty old is replaced by an empty run of filler: the text is unchanged.
StringsReplace(s, old, new) ==
    IF old = <<>> THEN s ELSE ReplaceFrom(s, old, new, 0)

\* strings.Count(s, sub) for a non-empty sub: non-overlapping occurrences.
RECURSIVE CountFrom(_, _, _)
CountFrom(s, sub, i) ==
    IF i >= Len(s) THEN 0
    ELSE IF HasPrefixAt(s, sub, i) THEN 1 + CountFrom(s, sub, i + Len(sub))
    ELSE CountFrom(s, sub, i + 1)

StringsCount(s, sub) == CountFrom(s, sub, 0)

RECURSIVE TrimLeft(_)
TrimLeft(s) == IF s # <<>> /\ IsSpace(Head(s)) THEN TrimLeft(Tail(s)) ELSE s

RECURSIVE TrimRight(_)
TrimRight(s) ==
    IF s # <<>> /\ IsSpace(s[Len(s)]) THEN TrimRight(SubSeq(s, 1, Len(s) - 1)) ELSE s

TrimSpace(s) == TrimRight(TrimLeft(s))

StringInSlice(a, slice) == \E i \in 1..Len(slice) : slice[i] = a

AllStringsInSlice(strings, slice) ==
    \A i \in 1..Len(strings) : StringInSlice(strings[i], slice)

(***************************************************************************)
(* Regular expressions.  A pattern is a sequence of items; an item is a    *)
(* character class with a grouping and a quantifier:                       *)
(*   grp: "none" c, "cap" (c), "noncap" (?:c), "stray" an unmatched "("    *)
(*   q:   "one", "opt" ?, "star" *                                         *)
(* A compiled expression is                                                *)
(*   [ic, word, wrap, pre, alts, names]: (?i) or not, \b(?:..)\b or      *)
(*   (?:..), the raw prefix, and the alternatives, each wrapped in a group *)
(*   of its own ("each", named names[m]), all in one group ("all") or in   *)
(*   none ("none").                                                        *)
(***************************************************************************)
Item(cs, grp, q) == [cs |-> cs, grp |-> grp, q |-> q]
Lit(c) == <<Item({c}, "none", "one")>>

Regexp(ic, word, wrap, pre, alts, names) ==
    [ic |-> ic, word |-> word, wrap |-> wrap, pre |-> pre, alts |-> alts,
     names |-> names]

\* The source text of an item, as written in a rule file.
RECURSIVE ClassSource(_)
ClassSource(cs) ==
    IF cs = {} THEN <<>>
    ELSE LET c == CHOOSE d \in cs : TRUE
         IN IF cs = {c} THEN <<c>> ELSE <<c, "|">> \o ClassSource(cs \ {c})

ItemSource(it) ==
    LET body == ClassSource(it.cs)
        grouped == CASE it.grp = "none" -> body
                     [] it.grp = "cap" -> <<"(">> \o body \o <<")">>
                     [] it.grp = "noncap" -> <<"(", "?", ":">> \o body \o <<")">>
                     [] it.grp = "stray" -> <<"(">> \o body
        quant == CASE it.q = "one" -> <<>>
                   [] it.q = "opt" -> <<"?">>
                   [] it.q = "star" -> <<"*">>
    IN grouped \o quant

RECURSIVE PatternSource(_)
PatternSource(p) ==
    IF p = <<>> THEN <<>> ELSE ItemSource(Head(p)) \o PatternSource(Tail(p))

\* regexp.Compile succeeds: every group is closed.
Compiles(p) == \A k \in 1..Len(p) : p[k].grp # "stray"

\* Capturing groups of a pattern.
NumCap(p) == Cardinality({k \in 1..Len(p) : p[k].grp = "cap"})

NoMatch == [ok |-> FALSE, end |-> -1, caps |-> <<>>]

CharIn(c, cs, ic) == IF ic THEN \E d \in cs : Fold(d) = Fold(c) ELSE c \in cs

\* The first of two attempts that matched.
FirstOk(a, b) == IF a.ok THEN a ELSE b

\* A match of the items after a capturing item, with that item's group.
WithCap(r, cap) == IF r.ok THEN [r EXCEPT !.caps = cap \o r.caps] ELSE r

\* Items k.. of p matched at offset i of s, greedy and backtracking; w asks
\* for a \b at the end.  caps lists <<start, end>> per capturing group.
RECURSIVE MatchItems(_, _, _, _, _, _)
MatchItems(p, k, s, i, ic, w) ==
    IF k > Len(p)
    THEN IF w /\ ~Boundary(s, i) THEN NoMatch
         ELSE [ok |-> TRUE, end |-> i, caps |-> <<>>]
    ELSE LET it == p[k]
             hit == i < Len(s) /\ CharIn(s[i + 1], it.cs, ic)
             capT == IF it.grp = "cap" THEN <<<<i, i + 1>>>> ELSE <<>>
             capS == IF it.grp = "cap" THEN <<<<-1, -1>>>> ELSE <<>>
             stay == IF hit /\ it.q = "star"
                     THEN MatchItems(p, k, s, i + 1, ic, w) ELSE NoMatch
             take == IF hit THEN MatchItems(p, k + 1, s, i + 1, ic, w) ELSE NoMatch
             skip == IF it.q # "one" THEN MatchItems(p, k + 1, s, i, ic, w) ELSE NoMatch
         IN FirstOk(stay, FirstOk(WithCap(take, capT), WithCap(skip, capS)))

RECURSIVE Concat(_)
Concat(ss) == IF ss = <<>> THEN <<>> ELSE Head(ss) \o Concat(Tail(ss))

\* The groups of alternatives m.. when alternative j matched as r at i.
RECURSIVE GroupsFrom(_, _, _, _, _)
GroupsFrom(re, m, j, r, i) ==
    IF m > Len(re.alts) THEN <<>>
    ELSE LET own == IF re.wrap = "each" THEN 1 ELSE 0
             n == own + NumCap(re.alts[m])
             here == IF m = j
                     THEN (IF own = 1 THEN <<i, r.end>> ELSE <<>>) \o Concat(r.caps)
                     ELSE Repeat(-1, 2 * n)
         IN here \o GroupsFrom(re, m + 1, j, r, i)

NoSubmatch == [ok |-> FALSE, sub |-> <<>>]

\* The submatch indexes of a match r of alternative m at offset j, for a match
\* that began at offset i.
Submatch(re, m, r, i, j) ==
    IF r.ok
    THEN [ok |-> TRUE,
          sub |-> <<i, r.end>>
                  \o (IF re.wrap = "all" THEN <<j, r.end>> ELSE <<>>)
                  \o GroupsFrom(re, 1, m, r, j)]
    ELSE NoSubmatch

\* The first alternative from m on that matches at offset j: leftmost-first.
RECURSIVE AltAt(_, _, _, _, _)
AltAt(re, m, s, i, j) ==
    IF m > Len(re.alts) THEN NoSubmatch
    ELSE FirstOk(Submatch(re, m, MatchItems(re.alts[m], 1, s, j, re.ic, re.word), i, j),
                 AltAt(re, m + 1, s, i, j))

AfterPrefix(re, s, i, p) ==
    IF ~p.ok \/ (re.word /\ ~Boundary(s, p.end)) THEN NoSubmatch
    ELSE AltAt(re, 1, s, i, p.end)

\* The raw prefix (literal items), then the template around the alternatives.
MatchAt(re, s, i) == AfterPrefix(re, s, i, MatchItems(re.pre, 1, s, i, re.ic, FALSE))

\* The leftmost match starting at offset pos or later.
RECURSIVE FirstMatch(_, _, _)
FirstMatch(re, s, pos) ==
    IF pos > Len(s) THEN NoSubmatch
    ELSE FirstOk(MatchAt(re, s, pos), FirstMatch(re, s, pos + 1))

\* Regexp.FindAllStringSubmatchIndex(s, -1): an empty match right after the
\* previous match is dropped, and the search moves on by one character.
RECURSIVE FindAllFrom(_, _, _, _)
FindAllAfter(re, s, m, prevMatchEnd) ==
    IF ~m.ok THEN <<>>
    ELSE (IF m.sub[2] = m.sub[1] /\ m.sub[1] = prevMatchEnd THEN <<>> ELSE <<m.sub>>)
         \o FindAllFrom(re, s, IF m.sub[2] = m.sub[1] THEN m.sub[2] + 1 ELSE m.sub[2],
                        m.sub[2])

FindAllFrom(re, s, pos, prevMatchEnd) ==
    IF pos > Len(s) THEN <<>>
    ELSE FindAllAfter(re, s, FirstMatch(re, s, pos), prevMatchEnd)

FindAllStringSubmatchIndex(re, s) == FindAllFrom(re, s, 0, -1)

WholeMatches(all) == [n \in 1..Len(all) |-> <<all[n][1], all[n][2]>>]

\* Regexp.FindAllStringIndex(s, -1)
FindAllStringIndex(re, s) == WholeMatches(FindAllStringSubmatchIndex(re, s))

MatchString(re, s) == FirstMatch(re, s, 0).ok

(***************************************************************************)
(* Masking                                                                 *)
(***************************************************************************)
\* ((?:https?|ftp)://[^\s/$.?#].[^\s]*)
UrlPattern ==
    << Item({"h"}, "none", "one"),
       Item(AllChars \ {" ", "#"}, "none", "one"),
       Item(AllChars, "none", "one"),
       Item(AllChars \ {" "}, "none", "star") >>

\* The per-format ignore patterns: markdown ignores "#".
MatchIgnoreByByExtension == [ext \in {".md"} |-> Lit("#")]

Exts == {".txt", ".md"}

\* The texts at the spans locs of t: Regexp.FindAllString.
Found(t, locs) == [n \in 1..Len(locs) |-> Slice(t, locs[n][1], locs[n][2])]

\* The loop of cleanText from found[n] on.
RECURSIVE MaskEach(_, _, _)
MaskEach(t, found, n) ==
    IF n > Len(found) THEN t
    ELSE MaskEach(StringsReplace(t, found[n], Repeat("*", Len(found[n]))), found, n + 1)

cleanText(ext, t) ==
    LET regex == Regexp(FALSE, FALSE, "none", <<>>,
                        <<UrlPattern>>
                        \o (IF ext \in DOMAIN MatchIgnoreByByExtension
                            THEN <<MatchIgnoreByByExtension[ext]>> ELSE <<>>),
                        <<>>)
    IN MaskEach(t, Found(t, FindAllStringIndex(regex, t)), 1)

(***************************************************************************)
(* Alerts and matchers.  A matcher returns [alerts, f, panic]: the alerts, *)
(* the File as it leaves it, and whether it panicked (index out of range). *)
(***************************************************************************)
Alert(def, loc, args) ==
    [Check |-> def.Name, Severity |-> def.Level, Span |-> loc, Args |-> args]

makeAlert(def, loc, t) == Alert(def, loc, <<Slice(t, loc[1], loc[2])>>)

Result(as, file) == [alerts |-> as, f |-> file, panic |-> FALSE]
Panicked(file) == [alerts |-> <<>>, f |-> file, panic |-> TRUE]

AlertsAt(def, locs, t) == [n \in 1..Len(locs) |-> makeAlert(def, locs[n], t)]

existence(t, def, file, r) ==
    Result(AlertsAt(def, FindAllStringIndex(r, cleanText(file.NormedExt, t)), t), file)

occurrenceOf(def, file, locs, lim) ==
    IF Len(locs) > lim
    THEN Result(<<Alert(def, <<locs[1][1], locs[Len(locs)][2]>>, <<>>)>>, file)
    ELSE Result(<<>>, file)

occurrence(t, def, file, r, lim) ==
    occurrenceOf(def, file, FindAllStringIndex(r, cleanText(file.NormedExt, t)), lim)

\* The loop of repetition from match n on, with the loop's variables.
RECURSIVE repetitionLoop(_, _, _, _, _, _, _)
repetitionLoop(t, def, locs, n, prev, ploc, count) ==
    IF n > Len(locs) THEN <<>>
    ELSE LET loc == locs[n]
             curr == TrimSpace(Slice(t, loc[1], loc[2]))
             hit == curr = prev /\ curr # <<>>
             count1 == IF hit THEN count + 1 ELSE count
             fire == hit /\ count1 > def.Max
         IN (IF fire THEN <<Alert(def, <<ploc[1], loc[2]>>, <<curr>>)>> ELSE <<>>)
            \o repetitionLoop(t, def, locs, n + 1, curr, loc,
                              IF fire THEN 0 ELSE count1)

repetition(t, def, file, r) ==
    Result(repetitionLoop(t, def, FindAllStringIndex(r, t), 1, <<>>, <<>>, 0), file)

\* The groups g.. that took part in a match: <<group, start, end>>.
RECURSIVE ParticipantsFrom(_, _)
ParticipantsFrom(submat, g) ==
    IF 2 * g + 2 > Len(submat) THEN <<>>
    ELSE (IF submat[2 * g + 1] # -1
          THEN <<<<g, submat[2 * g + 1], submat[2 * g + 2]>>>> ELSE <<>>)
         \o ParticipantsFrom(submat, g + 1)

\* The groups 1.. that took part in the matches all[n..], in order.
RECURSIVE AllParticipants(_, _)
AllParticipants(all, n) ==
    IF n > Len(all) THEN <<>>
    ELSE ParticipantsFrom(all[n], 1) \o AllParticipants(all, n + 1)

substitutionOf(clean, def, file, hits, repl) ==
    IF \E n \in 1..Len(hits) : hits[n][1] > Len(repl)
    THEN Panicked(file)
    ELSE Result([n \in 1..Len(hits) |->
                    Alert(def, <<hits[n][2], hits[n][3]>>,
                          <<repl[hits[n][1]], Slice(clean, hits[n][2], hits[n][3])>>)],
                file)

substitutionIn(clean, def, file, r, repl) ==
    substitutionOf(clean, def, file,
                   AllParticipants(FindAllStringSubmatchIndex(r, clean), 1), repl)

substitution(t, def, file, r, repl) ==
    IF ~MatchString(r, t) THEN Result(<<>>, file)
    ELSE substitutionIn(cleanText(file.NormedExt, t), def, file, r, repl)

\* Regexp.SubexpNames(), without the name of group 0.
RECURSIVE SubexpNamesFrom(_, _)
SubexpNamesFrom(r, m) ==
    IF m > Len(r.alts) THEN <<>>
    ELSE (IF r.wrap = "each" THEN <<r.names[m]>> ELSE <<>>)
         \o [k \in 1..NumCap(r.alts[m]) |-> <<>>]
         \o SubexpNamesFrom(r, m + 1)

SubexpNames(r) == (IF r.wrap = "all" THEN <<<<>>>> ELSE <<>>) \o SubexpNamesFrom(r, 1)

\* loc is the span of the last group seen; with none seen it is empty and
\* makeAlert slices out of range.
consistencyOf(clean, def, file, matches, hits, seqs, opts) ==
    IF matches # <<>> /\ AllStringsInSlice(opts, seqs)
    THEN IF hits = <<>> THEN Panicked([file EXCEPT !.Sequences = seqs])
         ELSE Result(<<makeAlert(def, <<hits[Len(hits)][2], hits[Len(hits)][3]>>,
                                 clean)>>,
                     [file EXCEPT !.Sequences = seqs])
    ELSE Result(<<>>, [file EXCEPT !.Sequences = seqs])

GroupNames(names, hits) == [n \in 1..Len(hits) |-> names[hits[n][1]]]

consistencySeen(clean, def, file, r, matches, hits, opts) ==
    consistencyOf(clean, def, file, matches, hits,
                  file.Sequences \o GroupNames(SubexpNames(r), hits), opts)

consistencyIn(clean, def, file, r, matches, opts) ==
    consistencySeen(clean, def, file, r, matches, AllParticipants(matches, 1), opts)

consistencyClean(clean, def, file, r, opts) ==
    consistencyIn(clean, def, file, r, FindAllStringSubmatchIndex(r, clean), opts)

consistency(t, def, file, r, opts) ==
    consistencyClean(cleanText(file.NormedExt, t), def, file, r, opts)

\* def[1] of a FindAllStringSubmatch entry: the text of group 1, empty when
\* the group took no part.
SubmatchText(t, submat, g) ==
    IF submat[2 * g + 1] = -1 THEN <<>>
    ELSE Slice(t, submat[2 * g + 1], submat[2 * g + 2])

\* The text of group 1 of each match, when the expression has a group.
FirstGroups(clean, definitions) ==
    IF definitions # <<>> /\ Len(definitions[1]) > 2
    THEN [n \in 1..Len(definitions) |-> SubmatchText(clean, definitions[n], 1)]
    ELSE <<>>

\* The loop over locs from locs[n] on.
RECURSIVE conditionalLoop(_, _, _, _, _)
conditionalLoop(clean, def, seqs, locs, n) ==
    IF n > Len(locs) THEN <<>>
    ELSE (IF /\ ~StringInSlice(Slice(clean, locs[n][1], locs[n][2]), seqs)
             /\ ~StringInSlice(Slice(clean, locs[n][1], locs[n][2]), def.Exceptions)
          THEN <<makeAlert(def, locs[n], clean)>> ELSE <<>>)
         \o conditionalLoop(clean, def, seqs, locs, n + 1)

conditionalOf(clean, def, file, seqs, locs) ==
    Result(conditionalLoop(clean, def, seqs, locs, 1), [file EXCEPT !.Sequences = seqs])

conditionalIn(clean, def, file, r) ==
    conditionalOf(clean, def, file,
                  file.Sequences
                  \o FirstGroups(clean, FindAllStringSubmatchIndex(r[1], clean)),
                  FindAllStringIndex(r[2], clean))

conditional(t, def, file, r) == conditionalIn(cleanText(file.NormedExt, t), def, file, r)

(***************************************************************************)
(* Definitions and the check compiler.  A dotted name is the sequence of   *)
(* its parts: "S.A" is <<"S", "A">>, "existence" is <<"existence">>.       *)
(* A Map is a set of <<key, value>> pairs; Go ranges over it in an order   *)
(* of its own, which the builders take as the sequence order.              *)
(***************************************************************************)
Definition(name) ==
    [Name |-> name, Type |-> <<>>, Level |-> "", Scope |-> "",
     Exceptions |-> <<>>, Exe |-> "", If |-> <<>>, Then |-> <<>>,
     Ignorecase |-> FALSE, Map |-> {}, Max |-> 0, Nonword |-> FALSE,
     Raw |-> <<>>, Runtime |-> "", Tokens |-> <<>>]

AlertLevels == <<"suggestion", "warning", "error">>
LevelToInt == [l \in {"suggestion", "warning", "error"} |->
                  CASE l = "suggestion" -> 0 [] l = "warning" -> 1 [] l = "error" -> 2]

\* Paths that exist under the styles directory.
Disk == {<<"S", "scripts">>, <<"S", "scripts", "a.py">>}

\* filepath.Join drops empty elements.
FileExists(path) == SelectSeq(path, LAMBDA e : e # "") \in Disk

Orders(map) ==
    {o \in [1..Cardinality(map) -> map] :
        \A a, b \in 1..Cardinality(map) : a # b => o[a] # o[b]}

\* The closure a builder binds: the matcher with what it captured.
Rule(kind, def, re, lim, repl, opts, exe) ==
    [kind |-> kind, def |-> def, re |-> re, lim |-> lim, repl |-> repl,
     opts |-> opts, exe |-> exe]

\* What a builder did: the updateAllChecks calls it made, in order, the
\* errors it reported, and whether it panicked.
Built(regs, errs) == [regs |-> regs, errors |-> errs, panic |-> FALSE]
Reg(def, fn) == [def |-> def, fn |-> fn]

\* strings.Join(tokens, "|") inside a group: no token is one empty alternative.
AltsOf(tokens) == IF tokens = <<>> THEN <<<<>>>> ELSE tokens

AllCompile(ps) == \A n \in 1..Len(ps) : Compiles(ps[n])

addScriptCheck(chkName, chkDef) ==
    LET style == chkName[1]
        exe == <<style, "scripts", chkDef.Exe>>
    IN IF FileExists(exe)
       THEN Built(<<Reg(chkDef, Rule("script", chkDef, <<>>, 0, <<>>, <<>>, exe))>>, <<>>)
       ELSE Built(<<>>, <<>>)

\* The iterations of the range over chkDef.Map from pair n on.
RECURSIVE consistencyPairs(_, _, _, _)
consistencyPairs(chkName, chkDef, order, n) ==
    IF n > Len(order) THEN Built(<<>>, <<>>)
    ELSE LET count == 2 * n
             chkKey == chkName[2]
             subs == <<<<chkKey, ToString(count)>>, <<chkKey, ToString(count + 1)>>>>
             v1 == order[n][1]
             v2 == order[n][2]
             re == Regexp(chkDef.Ignorecase, ~chkDef.Nonword, "each", <<>>,
                          <<v1, v2>>, subs)
             def == [chkDef EXCEPT !.Type = chkName]
             rest == consistencyPairs(chkName, chkDef, order, n + 1)
         IN IF Compiles(v1) /\ Compiles(v2)
            THEN [rest EXCEPT !.regs =
                     <<Reg(def, Rule("consistency", def, <<re>>, 0, <<>>, subs, <<>>))>>
                     \o rest.regs]
            ELSE [rest EXCEPT !.errors = <<chkName>> \o rest.errors]

addConsistencyCheck(chkName, chkDef, order) ==
    consistencyPairs(chkName, chkDef, order, 1)

addExistenceCheck(chkName, chkDef) ==
    LET re == Regexp(chkDef.Ignorecase, ~chkDef.Nonword /\ Len(chkDef.Tokens) > 0,
                     "none", Concat(chkDef.Raw), AltsOf(chkDef.Tokens), <<>>)
    IN IF AllCompile(chkDef.Raw) /\ AllCompile(chkDef.Tokens)
       THEN Built(<<Reg(chkDef, Rule("existence", chkDef, <<re>>, 0, <<>>, <<>>, <<>>))>>,
                  <<>>)
       ELSE Built(<<>>, <<chkName>>)

addRepetitionCheck(chkName, chkDef) ==
    LET re == Regexp(chkDef.Ignorecase, FALSE, "all", <<>>, AltsOf(chkDef.Tokens), <<>>)
    IN IF AllCompile(chkDef.Tokens)
       THEN Built(<<Reg(chkDef, Rule("repetition", chkDef, <<re>>, 0, <<>>, <<>>, <<>>))>>,
                  <<>>)
       ELSE Built(<<>>, <<chkName>>)

addOccurrenceCheck(chkName, chkDef) ==
    IF chkDef.Tokens = <<>> THEN [regs |-> <<>>, errors |-> <<>>, panic |-> TRUE]
    ELSE LET re == Regexp(FALSE, FALSE, "none", <<>>, <<chkDef.Tokens[1]>>, <<>>)
         IN IF ~Compiles(chkDef.Tokens[1]) THEN Built(<<>>, <<chkName>>)
            ELSE IF chkDef.Max >= 1
            THEN Built(<<Reg(chkDef, Rule("occurrence", chkDef, <<re>>, chkDef.Max,
                                         <<>>, <<>>, <<>>))>>, <<>>)
            ELSE Built(<<>>, <<>>)

\* addConditionalCheck compiling If before Then.
addConditionalCheckIfFirst(chkName, chkDef) ==
    LET then == Regexp(FALSE, FALSE, "none", <<>>, <<chkDef.Then>>, <<>>)
        if == Regexp(FALSE, FALSE, "none", <<>>, <<chkDef.If>>, <<>>)
        expression == <<if, then>>
    IN IF ~Compiles(chkDef.If) THEN Built(<<>>, <<chkName>>)
       ELSE IF ~Compiles(chkDef.Then) THEN Built(<<>>, <<chkName>>)
       ELSE Built(<<Reg(chkDef, Rule("conditional", chkDef, expression, 0, <<>>, <<>>,
                                    <<>>))>>, <<>>)

addConditionalCheck(chkName, chkDef) ==
    LET then == Regexp(FALSE, FALSE, "none", <<>>, <<chkDef.Then>>, <<>>)
        if == Regexp(FALSE, FALSE, "none", <<>>, <<chkDef.If>>, <<>>)
        expression == <<then, if>>
    IN IF ~Compiles(chkDef.Then) THEN Built(<<>>, <<chkName>>)
       ELSE IF ~Compiles(chkDef.If) THEN Built(<<>>, <<chkName>>)
       ELSE Built(<<Reg(chkDef, Rule("conditional", chkDef, expression, 0, <<>>, <<>>,
                                    <<>>))>>, <<>>)

\* The pairs of the range over chkDef.Map that are not skipped.
keptPairs(order) ==
    SelectSeq(order, LAMBDA pr :
        StringsCount(PatternSource(pr[1]), <<"(">>)
            = StringsCount(PatternSource(pr[1]), <<"?", ":">>))

addSubstitutionCheck(chkName, chkDef, order) ==
    LET kept == keptPairs(order)
        tokens == [n \in 1..Len(kept) |-> kept[n][1]]
        replacements == [n \in 1..Len(kept) |-> kept[n][2]]
        re == IF kept = <<>>
              THEN Regexp(chkDef.Ignorecase, ~chkDef.Nonword, "none", <<>>, <<<<>>>>, <<>>)
              ELSE Regexp(chkDef.Ignorecase, ~chkDef.Nonword, "each", <<>>, tokens,
                          [n \in 1..Len(kept) |-> <<>>])
    IN IF AllCompile(tokens)
       THEN Built(<<Reg(chkDef, Rule("substitution", chkDef, <<re>>, 0, replacements,
                                    <<>>, <<>>))>>, <<>>)
       ELSE Built(<<>>, <<<<"addSubstitutionCheck">>>>)

\* The rule a check holds, applied: fn(text, file).
Apply(fn, t, file) ==
    CASE fn.kind = "existence" -> existence(t, fn.def, file, fn.re[1])
      [] fn.kind = "occurrence" -> occurrence(t, fn.def, file, fn.re[1], fn.lim)
      [] fn.kind = "repetition" -> repetition(t, fn.def, file, fn.re[1])
      [] fn.kind = "substitution" -> substitution(t, fn.def, file, fn.re[1], fn.repl)
      [] fn.kind = "consistency" -> consistency(t, fn.def, file, fn.re[1], fn.opts)
      [] fn.kind = "conditional" -> conditional(t, fn.def, file, fn.re)

Check(chkDef, fn) ==
    [rule |-> fn, extends |-> chkDef.Type,
     level |-> IF chkDef.Level \in DOMAIN LevelToInt THEN LevelToInt[chkDef.Level] ELSE 0,
     scope |-> chkDef.Scope]

updateAllChecks(all, chkDef, fn) ==
    [n \in DOMAIN all \cup {chkDef.Name} |->
        IF n = chkDef.Name THEN Check(chkDef, fn) ELSE all[n]]

Kinds == {<<"conditional">>, <<"consistency">>, <<"existence">>, <<"occurrence">>,
          <<"repetition">>, <<"script">>, <<"substitution">>}

typeToFunc(type, chkName, chkDef, order) ==
    CASE type = <<"conditional">> -> addConditionalCheck(chkName, chkDef)
      [] type = <<"consistency">> -> addConsistencyCheck(chkName, chkDef, order)
      [] type = <<"existence">> -> addExistenceCheck(chkName, chkDef)
      [] type = <<"occurrence">> -> addOccurrenceCheck(chkName, chkDef)
      [] type = <<"repetition">> -> addRepetitionCheck(chkName, chkDef)
      [] type = <<"script">> -> addScriptCheck(chkName, chkDef)
      [] type = <<"substitution">> -> addSubstitutionCheck(chkName, chkDef, order)

\* A rule file: [malformed, def], def holding the fields the record gives and
\* zero values for the rest (Name <<>> when the record gives none).
addCheck(file, chkName, order) ==
    IF file.malformed THEN Built(<<>>, <<chkName>>)
    ELSE LET named == IF file.def.Name = <<>>
                      THEN [file.def EXCEPT !.Name = chkName] ELSE file.def
             levelled == IF StringInSlice(named.Level, AlertLevels) THEN named
                         ELSE [named EXCEPT !.Level = "suggestion"]
             chkDef == IF levelled.Scope = "" THEN [levelled EXCEPT !.Scope = "text"]
                       ELSE levelled
         IN IF chkDef.Type \in Kinds
            THEN typeToFunc(chkDef.Type, chkName, chkDef, order)
            ELSE Built(<<>>, <<>>)

\* A directory entry: [src, style, base, ext, readable, file].
loadCheck(entry, all, order) ==
    IF entry.ext # ".yml" THEN Built(<<>>, <<>>)
    ELSE IF ~entry.readable THEN Built(<<>>, <<<<entry.base>>>>)
    ELSE LET chkName == <<entry.style, entry.base>>
         IN IF chkName \in DOMAIN all THEN Built(<<>>, <<chkName>>)
            ELSE addCheck(entry.file, chkName, order)

\* One asset of loadDefaultChecks.
loadDefaultCheck(entry, order) ==
    IF ~entry.readable THEN Built(<<>>, <<>>)
    ELSE addCheck(entry.file, <<"vale", entry.base>>, order)

\* The registry after the updateAllChecks calls regs[n..].
RECURSIVE registerAll(_, _, _)
registerAll(all, regs, n) ==
    IF n > Len(regs) THEN all
    ELSE registerAll(updateAllChecks(all, regs[n].def, regs[n].fn), regs, n + 1)

\* History: the first check registered under each name.
RECURSIVE firstAll(_, _, _)
firstAll(first, regs, n) ==
    IF n > Len(regs) THEN first
    ELSE LET name == regs[n].def.Name
             next == IF name \in DOMAIN first THEN first
                     ELSE [m \in DOMAIN first \cup {name} |->
                              IF m = name THEN Check(regs[n].def, regs[n].fn)
                              ELSE first[m]]
         IN firstAll(next, regs, n + 1)

(***************************************************************************)
(* Scanning: a check's rule is applied to a text with the document's File. *)
(***************************************************************************)
FreshFile(ext) == [NormedExt |-> ext, Sequences |-> <<>>]

LoaderIdle ==
    /\ AllChecks = <<>>
    /\ firstReg = <<>>
    /\ queue = <<>>
    /\ loaded = <<>>
    /\ errors = <<>>

ProcIdle == proc = [state |-> "none", hangs |-> FALSE, code |-> 0, out |-> <<>>]

\* The rule of the only check a compile of def registers.
Compiled(built) == built.regs[1].fn

\* What an invocation that returned r leaves: the alerts and the File.
Returned(r, next) ==
    /\ alerts' = r.alerts
    /\ f' = r.f
    /\ pc' = IF r.panic THEN "panicked" ELSE next
    /\ runs' = runs + 1

\* One invocation of the check on the text of the state.
Scan ==
    /\ pc = "ready"
    /\ Returned(Apply(chk, txt, f), "done")
    /\ UNCHANGED <<txt, chk, AllChecks, firstReg, queue, loaded, errors, proc>>

\* One invocation of the check on the next block of the document; the File
\* is the document's, kept from block to block.
BlockTexts == Texts({"x", "y", "="}, MaxLen)

ScanBlock ==
    /\ pc = "open"
    /\ runs < MaxRuns
    /\ \E t \in BlockTexts :
          /\ txt' = t
          /\ Returned(Apply(chk, t, f), "open")
    /\ UNCHANGED <<chk, AllChecks, firstReg, queue, loaded, errors, proc>>

Named(type) == [Definition(<<"S", "A">>) EXCEPT !.Type = <<type>>, !.Level = "warning",
                                              !.Scope = "text"]

(***************************************************************************)
(* Repetition on one text.                                                 *)
(***************************************************************************)
RepetitionDefs ==
    {[Named("repetition") EXCEPT !.Tokens = toks, !.Max = max] :
        toks \in {<<Lit("x"), Lit("y")>>, <<Lit("x"), Lit("y"), Lit(" ")>>},
        max \in 0..MaxMax}

InitRepetition ==
    /\ pc = "ready"
    /\ txt \in Texts({"x", "y", " "}, LongLen)
    /\ \E def \in RepetitionDefs : chk = Compiled(addRepetitionCheck(def.Name, def))
    /\ f = FreshFile(".txt")
    /\ alerts = <<>>
    /\ runs = 0
    /\ LoaderIdle
    /\ ProcIdle

SpecRepetition == InitRepetition /\ [][Scan]_vars

\* The matches the repetition check of the state finds in its text, and the
\* trimmed text of match n.
RepMatches == FindAllStringIndex(chk.re[1], txt)
RepText(n) == TrimSpace(Slice(txt, RepMatches[n][1], RepMatches[n][2]))

\* The matches at which an alert is due when repeats are counted from zero at
\* the start of each run of identical matches and again after each alert.
RECURSIVE FiringsPerRun(_, _, _)
FiringsPerRun(n, count, max) ==
    IF n > Len(RepMatches) THEN <<>>
    ELSE LET same == n > 1 /\ RepText(n) = RepText(n - 1) /\ RepText(n) # <<>>
             c == IF same THEN count + 1 ELSE 0
             fire == same /\ c > max
         IN (IF fire THEN <<n>> ELSE <<>>)
            \o FiringsPerRun(n + 1, IF fire THEN 0 ELSE c, max)

\* The text is one run of identical non-empty matches.
SingleRun ==
    /\ RepMatches # <<>>
    /\ \A n \in 1..Len(RepMatches) : RepText(n) = RepText(1) /\ RepText(n) # <<>>

\* C1: an alert is emitted at a match exactly when the repeats of the same
\* non-empty trimmed text, counted from zero at the start of the current run
\* or at the last alert, exceed Max; a single run of n identical matches
\* yields (n - 1) \div (Max + 1) alerts.
C1_CountedPerRun ==
    pc = "done" =>
        LET due == FiringsPerRun(1, 0, chk.def.Max)
        IN /\ [n \in 1..Len(alerts) |-> alerts[n].Span[2]]
                = [k \in 1..Len(due) |-> RepMatches[due[k]][2]]
           /\ SingleRun =>
                Len(alerts) = (Len(RepMatches) - 1) \div (chk.def.Max + 1)

\* An alert was emitted at match n.
FiredAt(n) == \E a \in 1..Len(alerts) : alerts[a].Span[2] = RepMatches[n][2]

\* The first match of the run of identical consecutive matches that match n
\* ends, the run taken to begin anew at a match that fired.
RECURSIVE RunFirst(_)
RunFirst(n) ==
    IF n > 1 /\ RepText(n - 1) = RepText(n) /\ ~FiredAt(n - 1)
    THEN RunFirst(n - 1)
    ELSE IF n > 1 /\ RepText(n - 1) = RepText(n) THEN n - 1 ELSE n

\* C2: every alert of the repetition matcher spans from the start of the
\* first match of the run that triggered it to the end of the current match.
C2_SpanFromRunStart ==
    pc = "done" =>
        \A a \in 1..Len(alerts) :
            \E n \in 1..Len(RepMatches) :
                /\ alerts[a].Span[2] = RepMatches[n][2]
                /\ alerts[a].Span[1] = RepMatches[RunFirst(n)][1]


(***************************************************************************)
(* Conditional on the blocks of one document.                              *)
(***************************************************************************)
\* (x|y): a bare usage.  =(x|y): a definition of x or y.  y: no group.
UsagePat == <<Item({"x", "y"}, "cap", "one")>>
DefnPat == <<Item({"="}, "none", "one"), Item({"x", "y"}, "cap", "one")>>
PlainPat == Lit("y")

ConditionalDefs ==
    {[Named("conditional") EXCEPT !.If = if, !.Then = then, !.Exceptions = exc] :
        if \in {UsagePat, DefnPat}, then \in {UsagePat, DefnPat, PlainPat},
        exc \in {<<>>, <<<<"y">>>>}}

InitConditional ==
    /\ pc = "open"
    /\ txt = <<>>
    /\ \E def \in ConditionalDefs : chk = Compiled(addConditionalCheck(def.Name, def))
    /\ f = FreshFile(".txt")
    /\ alerts = <<>>
    /\ runs = 0
    /\ LoaderIdle
    /\ ProcIdle

SpecConditional == InitConditional /\ [][ScanBlock]_vars

\* The text the matchers search.
Clean == cleanText(f.NormedExt, txt)

PatRe(pat) == Regexp(FALSE, FALSE, "none", <<>>, <<pat>>, <<>>)

\* The spans of the matches of pat, and the first capture-group text of each
\* (none when pat has no group).
PatSpans(pat) == FindAllStringIndex(PatRe(pat), Clean)
PatCaptures(pat) ==
    LET all == FindAllStringSubmatchIndex(PatRe(pat), Clean)
    IN IF NumCap(pat) = 0 THEN <<>>
       ELSE [n \in 1..Len(all) |-> SubmatchText(Clean, all[n], 1)]

IsSuffix(tail, seq) ==
    /\ Len(tail) <= Len(seq)
    /\ SubSeq(seq, Len(seq) - Len(tail) + 1, Len(seq)) = tail

\* The spans of the matches of pat whose text is neither in the File's
\* sequence nor an exception of the rule.
Unexcused(pat) ==
    SelectSeq(PatSpans(pat), LAMBDA loc :
        /\ ~StringInSlice(Slice(Clean, loc[1], loc[2]), f.Sequences)
        /\ ~StringInSlice(Slice(Clean, loc[1], loc[2]), chk.def.Exceptions))

AlertSpans == [n \in 1..Len(alerts) |-> alerts[n].Span]

\* C3 as stated: the captures of the `if` pattern are appended to the sequence,
\* and the `then` matches are the ones flagged.
C3_IfCollectedThenFlagged ==
    (pc = "open" /\ runs > 0) =>
        /\ IsSuffix(PatCaptures(chk.def.If), f.Sequences)
        /\ AlertSpans = Unexcused(chk.def.Then)

\* C3 amended: in one invocation the first capture-group text of every match
\* of the `then` pattern is appended to the sequence first, and an `if` match
\* is flagged, one alert at its span, if and only if its matched text is
\* neither in the sequence nor in the exception set.
C3_ThenCollectedIfFlagged ==
    (pc = "open" /\ runs > 0) =>
        /\ IsSuffix(PatCaptures(chk.def.Then), f.Sequences)
        /\ AlertSpans = Unexcused(chk.def.If)

\* A block with a usage that a definition collected in the document excuses
\* and a usage that is flagged.
C3_Witness ==
    /\ pc = "open"
    /\ runs > 0
    /\ chk.def.If = UsagePat
    /\ chk.def.Then = DefnPat
    /\ f.Sequences # <<>>
    /\ alerts # <<>>
    /\ Len(alerts) < Len(PatSpans(chk.def.If))

(***************************************************************************)
(* Consistency on one document with a fresh File.                          *)
(***************************************************************************)
ConsistencyDefs ==
    {[Named("consistency") EXCEPT !.Map = {<<Lit(a), Lit(b)>>}, !.Nonword = nw] :
        a \in {"x"}, b \in {"y"}, nw \in BOOLEAN}

InitConsistency ==
    /\ pc = "ready"
    /\ txt \in Texts({"x", "y", " "}, LongLen)
    /\ \E def \in ConsistencyDefs : \E order \in Orders(def.Map) :
          chk = Compiled(addConsistencyCheck(def.Name, def, order))
    /\ f = FreshFile(".txt")
    /\ alerts = <<>>
    /\ runs = 0
    /\ LoaderIdle
    /\ ProcIdle

SpecConsistency == InitConsistency /\ [][Scan]_vars

\* The spans of the variants in the document, in order, and the first of them
\* that is of another variant than the first one.
VariantSpans == FindAllStringIndex(chk.re[1], Clean)
VariantText(n) == Slice(Clean, VariantSpans[n][1], VariantSpans[n][2])
BothVariants == \E n \in 1..Len(VariantSpans) : VariantText(n) # VariantText(1)
CompletesPair ==
    CHOOSE n \in 1..Len(VariantSpans) :
        /\ VariantText(n) # VariantText(1)
        /\ \A m \in 1..(n - 1) : VariantText(m) = VariantText(1)

\* C4: with one variant and later the other, exactly one alert, at the match
\* that first completes the pair, whatever follows; with one variant only, no
\* alert.
C4_AlertWherePairCompletes ==
    pc = "done" =>
        IF BothVariants
        THEN Len(alerts) = 1 /\ alerts[1].Span = VariantSpans[CompletesPair]
        ELSE alerts = <<>>

(***************************************************************************)
(* Substitution on one text.                                               *)
(***************************************************************************)
\* x, y, (?:y), (x)?: and (y), each with its replacement.
SubstitutionPairs ==
    { <<Lit("x"), "rx">>,
      <<Lit("y"), "ry">>,
      <<<<Item({"y"}, "noncap", "one")>>, "rn">>,
      <<<<Item({"x"}, "cap", "opt"), Item({":"}, "none", "one")>>, "rc">>,
      <<<<Item({"y"}, "cap", "one")>>, "rp">> }

SubstitutionDefs ==
    {[Named("substitution") EXCEPT !.Map = map, !.Nonword = TRUE] :
        map \in {m \in SUBSET SubstitutionPairs : Cardinality(m) \in 1..3}}

InitSubstitution ==
    /\ pc = "ready"
    /\ txt \in Texts({"x", "y", ":"}, MaxLen + 1)
    /\ \E def \in SubstitutionDefs : \E order \in Orders(def.Map) :
          chk = Compiled(addSubstitutionCheck(def.Name, def, order))
    /\ f = FreshFile(".txt")
    /\ alerts = <<>>
    /\ runs = 0
    /\ LoaderIdle
    /\ ProcIdle

SpecSubstitution == InitSubstitution /\ [][Scan]_vars

\* The pairs of the Map that the expression of the check keeps.
KeptPairs == {pr \in chk.def.Map : \E k \in 1..Len(chk.repl) :
                 chk.re[1].alts[k] = pr[1] /\ chk.repl[k] = pr[2]}

\* pat matches the whole of s.
Matches(pat, s) == LET r == MatchItems(pat, 1, s, 0, FALSE, FALSE)
                   IN r.ok /\ r.end = Len(s)

\* C5: for every kept pair and every iteration order, the capture group of
\* the pattern is at the position of its replacement, so every alert is of a
\* match of a kept pattern and recommends that pair's replacement; no pair
\* shifts the groups past the replacements.
C5_ReplacementAligned ==
    pc \in {"done", "panicked"} =>
        /\ pc # "panicked"
        /\ \A a \in 1..Len(alerts) :
              \E pr \in KeptPairs :
                  /\ alerts[a].Args[1] = pr[2]
                  /\ Matches(pr[1], Slice(txt, alerts[a].Span[1], alerts[a].Span[2]))

(***************************************************************************)
(* Masking: each pattern matcher on one text.                              *)
(***************************************************************************)
MaskChecks ==
    { Compiled(addExistenceCheck(<<"S", "A">>,
          [Named("existence") EXCEPT !.Tokens = <<Lit("x")>>, !.Nonword = TRUE])),
      Compiled(addOccurrenceCheck(<<"S", "A">>,
          [Named("occurrence") EXCEPT !.Tokens = <<Lit("x")>>, !.Max = 1])),
      Compiled(addRepetitionCheck(<<"S", "A">>,
          [Named("repetition") EXCEPT !.Tokens = <<Lit("x")>>])),
      Compiled(addSubstitutionCheck(<<"S", "A">>,
          [Named("substitution") EXCEPT !.Map = {<<Lit("x"), "rx">>}, !.Nonword = TRUE],
          <<<<Lit("x"), "rx">>>>)),
      Compiled(addConsistencyCheck(<<"S", "A">>,
          [Named("consistency") EXCEPT !.Map = {<<Lit("x"), Lit("y")>>},
                                       !.Nonword = TRUE],
          <<<<Lit("x"), Lit("y")>>>>)),
      Compiled(addConditionalCheck(<<"S", "A">>,
          [Named("conditional") EXCEPT !.If = Lit("x"), !.Then = Lit("y")])) }

InitMask ==
    /\ pc = "ready"
    /\ txt \in Texts({"x", "y", " ", "h", "#"}, MaxLen + 2)
    /\ chk \in MaskChecks
    /\ \E ext \in Exts : f = FreshFile(ext)
    /\ alerts = <<>>
    /\ runs = 0
    /\ LoaderIdle
    /\ ProcIdle

SpecMask == InitMask /\ [][Scan]_vars

\* Offset i of the text is inside a masked region.
Masked(i) == Clean[i + 1] # txt[i + 1]

\* The offsets of the token outside the masked regions.
OpenTokens == {i \in 0..(Len(txt) - 1) : txt[i + 1] = "x" /\ ~Masked(i)}

RECURSIVE SpansOf(_, _)
SpansOf(offsets, i) ==
    IF i >= Len(txt) THEN <<>>
    ELSE (IF i \in offsets THEN <<<<i, i + 1>>>> ELSE <<>>) \o SpansOf(offsets, i + 1)

\* C10: every pattern matcher searches the masked copy: a token that occurs
\* only inside masked regions gives no alert, no alert begins or ends inside a
\* masked region, and existence flags the token outside them at its offsets.
C10_EveryMatcherMasked ==
    pc = "done" =>
        /\ OpenTokens = {} => alerts = <<>>
        /\ \A a \in 1..Len(alerts) :
              ~Masked(alerts[a].Span[1]) /\ ~Masked(alerts[a].Span[2] - 1)
        /\ chk.kind = "existence" => AlertSpans = SpansOf(OpenTokens, 0)

(***************************************************************************)
(* Loading: init() goes through the bundled rules, then the rule files of  *)
(* the styles and the named checks.                                        *)
(***************************************************************************)
Unnamed(type) == [Definition(<<>>) EXCEPT !.Type = <<type>>]
StrayPat == <<Item({"x"}, "stray", "one")>>

RuleFiles ==
    LET Of(def) == [malformed |-> FALSE, def |-> def]
    IN { Of([Unnamed("existence") EXCEPT !.Tokens = <<Lit("x")>>]),
         Of(Unnamed("existence")),
         Of([Unnamed("existence") EXCEPT !.Tokens = <<StrayPat>>]),
         Of([Unnamed("existence") EXCEPT !.Tokens = <<Lit("y")>>,
                                         !.Name = <<"vale", "A">>]),
         Of([Unnamed("occurrence") EXCEPT !.Tokens = <<Lit("x")>>, !.Max = 1]),
         Of([Unnamed("occurrence") EXCEPT !.Max = 1]),
         Of([Unnamed("occurrence") EXCEPT !.Tokens = <<Lit("x")>>]),
         Of([Unnamed("repetition") EXCEPT !.Tokens = <<Lit("x")>>]),
         Of([Unnamed("substitution") EXCEPT !.Map = {<<Lit("x"), "rx">>}]),
         Of([Unnamed("consistency") EXCEPT !.Map = {<<Lit("x"), Lit("y")>>}]),
         Of([Unnamed("consistency") EXCEPT
                !.Map = {<<Lit("x"), Lit("y")>>, <<Lit("X"), Lit(":")>>}]),
         Of([Unnamed("conditional") EXCEPT !.If = UsagePat, !.Then = DefnPat]),
         Of([Unnamed("conditional") EXCEPT !.If = StrayPat, !.Then = DefnPat]),
         Of([Unnamed("script") EXCEPT !.Exe = "a.py", !.Runtime = "python"]),
         Of([Unnamed("script") EXCEPT !.Exe = "b.py", !.Runtime = "python"]),
         Of(Unnamed("spelling")),
         [malformed |-> TRUE, def |-> Definition(<<>>)] }

Entry(src, style, base, ext, readable, file) ==
    [src |-> src, style |-> style, base |-> base, ext |-> ext,
     readable |-> readable, file |-> file]

Entries ==
    {Entry("default", "vale", "A", ".yml", TRUE, file) : file \in RuleFiles}
    \cup {Entry("style", nm[1], nm[2], ".yml", TRUE, file) :
             nm \in {<<"S", "A">>, <<"S", "B">>, <<"vale", "A">>}, file \in RuleFiles}
    \cup {Entry("style", "S", "A", ".md", TRUE, file) :
             file \in {[malformed |-> TRUE, def |-> Definition(<<>>)]}}
    \cup {Entry(src, "S", "A", ".yml", FALSE, file) :
             src \in {"default", "style"},
             file \in {[malformed |-> TRUE, def |-> Definition(<<>>)]}}

\* The bundled rules come first and bear distinct names.
InitLoad ==
    /\ pc = "loading"
    /\ queue \in UNION {[1..n -> Entries] : n \in 0..MaxQueue}
    /\ \A i, j \in 1..Len(queue) :
          i < j => /\ queue[j].src = "default" => queue[i].src = "default"
                   /\ queue[j].src = "default" => queue[i].base # queue[j].base
    /\ AllChecks = <<>>
    /\ firstReg = <<>>
    /\ loaded = <<>>
    /\ errors = <<>>
    /\ txt = <<>>
    /\ chk = <<>>
    /\ f = FreshFile(".txt")
    /\ alerts = <<>>
    /\ runs = 0
    /\ ProcIdle

\* What a builder's work leaves in the registry; a panic ends the process.
Installed(built) ==
    /\ AllChecks' = IF built.panic THEN AllChecks ELSE registerAll(AllChecks, built.regs, 1)
    /\ firstReg' = IF built.panic THEN firstReg ELSE firstAll(firstReg, built.regs, 1)
    /\ errors' = errors \o built.errors
    /\ pc' = IF built.panic THEN "panicked" ELSE pc
    /\ loaded' = Append(loaded, Head(queue))
    /\ queue' = Tail(queue)
    /\ UNCHANGED <<txt, chk, f, alerts, runs, proc>>

LoadDefault ==
    /\ pc = "loading"
    /\ queue # <<>>
    /\ Head(queue).src = "default"
    /\ \E order \in Orders(Head(queue).file.def.Map) :
          Installed(loadDefaultCheck(Head(queue), order))

LoadCheck ==
    /\ pc = "loading"
    /\ queue # <<>>
    /\ Head(queue).src = "style"
    /\ \E order \in Orders(Head(queue).file.def.Map) :
          Installed(loadCheck(Head(queue), AllChecks, order))

LoadDone ==
    /\ pc = "loading"
    /\ queue = <<>>
    /\ pc' = "loaded"
    /\ UNCHANGED <<txt, chk, f, alerts, runs, AllChecks, firstReg, queue, loaded,
                   errors, proc>>

SpecLoad == InitLoad /\ [][LoadDefault \/ LoadCheck \/ LoadDone]_vars

SameCheck(a, b) == a.rule.kind = b.rule.kind /\ a = b

\* C6: every name of the registry maps to the check of the first registration
\* under that name: no later load or builder call replaces or removes it.
C6_FirstRegistrationWins ==
    /\ DOMAIN AllChecks = DOMAIN firstReg
    /\ \A n \in DOMAIN AllChecks : SameCheck(AllChecks[n], firstReg[n])

\* The qualified name a rule file is loaded under.
NameOf(e) == <<e.style, e.base>>

\* A rule file that is to be registered: a readable record of one of the seven
\* kinds whose kind-specific fields are there and whose patterns compile.
WellFormed(e) ==
    LET d == e.file.def
    IN /\ e.ext = ".yml"
       /\ e.readable
       /\ ~e.file.malformed
       /\ d.Type \in Kinds
       /\ CASE d.Type = <<"existence">> ->
                 (d.Tokens # <<>> \/ d.Raw # <<>>) /\ AllCompile(d.Tokens)
                 /\ AllCompile(d.Raw)
            [] d.Type = <<"occurrence">> ->
                 d.Tokens # <<>> /\ AllCompile(d.Tokens) /\ d.Max >= 1
            [] d.Type = <<"repetition">> -> d.Tokens # <<>> /\ AllCompile(d.Tokens)
            [] d.Type = <<"substitution">> ->
                 d.Map # {} /\ \A pr \in d.Map : Compiles(pr[1])
            [] d.Type = <<"consistency">> ->
                 d.Map # {} /\ \A pr \in d.Map : Compiles(pr[1]) /\ Compiles(pr[2])
            [] d.Type = <<"conditional">> ->
                 d.If # <<>> /\ d.Then # <<>> /\ Compiles(d.If) /\ Compiles(d.Then)
            [] d.Type = <<"script">> ->
                 d.Exe # "" /\ FileExists(<<e.style, "scripts", d.Exe>>)

\* The name a registration of the file would bear.
RegisteredAs(e) == IF e.file.def.Name = <<>> THEN NameOf(e) ELSE e.file.def.Name

\* C7: when loading is over, every well-formed rule of the sequence is
\* registered, whatever the other rules were, and a rule that is not
\* well-formed has nothing registered for it.
C7_FailuresIsolated ==
    pc \in {"loaded", "panicked"} =>
        LET all == loaded \o queue
        IN \A i \in 1..Len(all) :
              IF WellFormed(all[i])
              THEN RegisteredAs(all[i]) \in DOMAIN AllChecks
              ELSE (\A j \in 1..Len(all) : j # i => ~WellFormed(all[j]))
                   => AllChecks = <<>>

(***************************************************************************)
(* The script matcher and its external process.                            *)
(***************************************************************************)
\* What the process may write: text that is no JSON, a JSON object, null, or
\* an array of elements: two alert records, a number, and a record whose Span
\* is a string.
Elems == {"alertA", "alertB", "number", "badSpan"}
Outputs ==
    {[kind |-> k, elems |-> <<>>] : k \in {"garbage", "object", "null"}}
    \cup {[kind |-> "array", elems |-> es] : es \in Texts(Elems, MaxOut)}

ZeroAlert == [Check |-> <<>>, Severity |-> "", Span |-> <<>>, Args |-> <<>>]

\* An array element decoded into an Alert: a field of the wrong type is
\* skipped, a value that is no object leaves the zero Alert.
Decoded(e) ==
    CASE e = "alertA" -> [Check |-> <<"S", "A">>, Severity |-> "warning",
                          Span |-> <<0, 1>>, Args |-> <<>>]
      [] e = "alertB" -> [Check |-> <<"S", "A">>, Severity |-> "error",
                          Span |-> <<2, 3>>, Args |-> <<>>]
      [] e = "badSpan" -> [Check |-> <<"S", "A">>, Severity |-> "warning",
                           Span |-> <<>>, Args |-> <<>>]
      [] e = "number" -> ZeroAlert

\* json.Unmarshal(out, &alerts): the alerts it leaves.
Unmarshal(out, into) ==
    CASE out.kind = "garbage" -> into
      [] out.kind = "object" -> into
      [] out.kind = "null" -> <<>>
      [] out.kind = "array" -> [n \in 1..Len(out.elems) |-> Decoded(out.elems[n])]

\* script, once cmd.Output() has returned with p.
script(p) ==
    IF p.state = "exited" /\ p.code = 0 THEN Unmarshal(p.out, <<>>) ELSE <<>>

InitScript ==
    /\ pc = "ready"
    /\ txt \in Texts({"x"}, 1)
    /\ chk = Compiled(addScriptCheck(<<"S", "A">>,
                 [Named("script") EXCEPT !.Exe = "a.py", !.Runtime = "python"]))
    /\ f = FreshFile(".txt")
    /\ alerts = <<>>
    /\ runs = 0
    /\ LoaderIdle
    /\ ProcIdle

\* cmd.Output() starts the process, or fails to.
ScriptStart ==
    /\ pc = "ready"
    /\ pc' = "waiting"
    /\ \/ proc' = [proc EXCEPT !.state = "failed"]
       \/ \E h \in BOOLEAN : proc' = [proc EXCEPT !.state = "running", !.hangs = h]
    /\ UNCHANGED <<scanVars, loadVars>>

\* The process exits, unless it is one that never does.
ProcExit ==
    /\ proc.state = "running"
    /\ ~proc.hangs
    /\ \E code \in {0, 1} : \E out \in Outputs :
          proc' = [proc EXCEPT !.state = "exited", !.code = code, !.out = out]
    /\ UNCHANGED <<pc, scanVars, loadVars>>

\* cmd.Output() returns and script returns its alerts.
ScriptReturn ==
    /\ pc = "waiting"
    /\ proc.state \in {"failed", "exited"}
    /\ alerts' = script(proc)
    /\ runs' = runs + 1
    /\ pc' = "done"
    /\ UNCHANGED <<txt, chk, f, proc, loadVars>>

NextScript == ScriptStart \/ ProcExit \/ ScriptReturn

\* The process that exits does so in the end, and the check takes its steps.
SpecScript ==
    /\ InitScript
    /\ [][NextScript]_vars
    /\ WF_vars(ScriptStart)
    /\ WF_vars(ProcExit)
    /\ WF_vars(ScriptReturn)

WellFormedOutput(out) ==
    out.kind = "array" /\ \A n \in 1..Len(out.elems) : out.elems[n] \in {"alertA", "alertB"}

\* C8: a spawn failure, a non-zero exit or output that is not a well-formed
\* array of alert records gives an empty alert list; a zero exit with
\* well-formed output gives exactly the records.
C8_ScriptFailureIsolated ==
    pc = "done" =>
        IF proc.state = "exited" /\ proc.code = 0 /\ WellFormedOutput(proc.out)
        THEN alerts = [n \in 1..Len(proc.out.elems) |-> Decoded(proc.out.elems[n])]
        ELSE alerts = <<>>

\* C9: the script check returns in the end, also when the process never
\* exits.
C9_ScriptReturns == (pc = "waiting") ~> (pc = "done")

====
